---- MODULE Spec2Model ----
(***************************************************************************)
(* A model of utils/_general.py: the BijectiveDict container, the          *)
(* ReadOnlyDescriptor, the stub generator, the Singleton metaclass and     *)
(* SignalBlocker, with the _init_module that writes a stub file.           *)
(***************************************************************************)
EXTENDS Integers, Sequences, FiniteSets, TLC

VARIABLES
    internal,   \* BijectiveDict._internal_dict: a function on the stored keys
    last,       \* the last BijectiveDict call: what was called and how it ended
    roInst,     \* the __dict__ of a Colour instance: its shadow attributes
    roLast,     \* the last access to an attribute of the instance
    sigFn,      \* the function-like object given to _stub_repr_function_like
    sigBound,   \* its class_bound argument
    sigOut,     \* what the call returned (and its list anns), once it is made
    stubObj,    \* what is given to stub_repr: the class stubCls or the object sigFn
    stubCls,    \* the class given to stub_repr
    stubSignals, \* its argument signals
    stubExtra,  \* its argument extra_cvs
    stubOut,    \* what the call returned (and its lists), once it is made
    typesVersion, \* the version of the source of the types a stub file describes
    stubFile,   \* the stub file of the module, as it is on disk
    initCalls,  \* how many times _init_module has been called
    instances,  \* Singleton._instances
    created,    \* how many instances the process has created
    returned,   \* per Singleton class, the instances its calls have returned
    modLast,    \* the last call of a constructor or of _init_module
    sbBlocked,  \* whether the signals of the QObject are blocked
    sbStack,    \* the open with SignalBlocker(obj) blocks, innermost last
    sbPending,  \* the exception under way, if any
    sbDelivered, \* how many signals of the object have been delivered
    sbLast      \* the last step taken with the object

bdVars == <<internal, last>>
roVars == <<roInst, roLast>>
sigVars == <<sigFn, sigBound, sigOut>>
stubVars == <<stubObj, stubCls, stubSignals, stubExtra, stubOut>>
modVars == <<typesVersion, stubFile, initCalls, instances, created, returned, modLast>>
sbVars == <<sbBlocked, sbStack, sbPending, sbDelivered, sbLast>>
vars == <<internal, last, roInst, roLast, sigFn, sigBound, sigOut,
          stubObj, stubCls, stubSignals, stubExtra, stubOut,
          typesVersion, stubFile, initCalls, instances, created, returned, modLast,
          sbBlocked, sbStack, sbPending, sbDelivered, sbLast>>

(***************************************************************************)
(* Bounds                                                                  *)
(***************************************************************************)
\* The int keys that are used are 0 .. MaxInt - 1.
MaxInt == 2

\* The colour channels take the values 0 .. MaxChannel - 1.
MaxChannel == 3

\* The functions given to the stub generator declare up to MaxParams
\* parameters.
MaxParams == 3

\* The classes given to the stub generator have up to MaxMembers members.
MaxMembers == 3

\* The source of the types is changed up to MaxVersion times.
MaxVersion == 2

\* _init_module is called up to MaxInits times.
MaxInits == 3

\* A constructor is given an argument of 0 .. MaxArg.
MaxArg == 1

\* Constructors are called while a process has created fewer than
\* MaxObjects instances.
MaxObjects == 3

\* Up to MaxDepth with blocks for the one object are open at a time.
MaxDepth == 2

\* Signals are emitted until MaxSignals of them have been delivered.
MaxSignals == 2

(***************************************************************************)
(* BijectiveDict (src/utils/_general.py:20-73)                             *)
(***************************************************************************)
\* The map of _Colours._colours_int: BijectiveDict(int) pairing int with Colour.
MainKeyType == "int"

\* The Colour objects that are used, each named by its identity.
ColourIds == {0, 1}

\* The objects that are used as keys and values.
Ints == [type : {"int"}, val : 0 .. (MaxInt - 1)]
Colours == [type : {"Colour"}, val : ColourIds]
Elem == Ints \cup Colours

\* Python's None, the value of a call that returns nothing or raises.
None == [type |-> "NoneType", val |-> 0]

EmptyDict == [x \in {} |-> None]

\* x in d
DictContains(d, x) == x \in DOMAIN d

\* dict.__delitem__(d, x), for a key that is stored
DictDelItem(d, x) == [y \in (DOMAIN d) \ {x} |-> d[y]]

\* dict.__setitem__(d, k, v)
DictSetItem(d, k, v) == [y \in (DOMAIN d) \cup {k} |-> IF y = k THEN v ELSE d[y]]

\* isinstance(k, self._main_key_type)
IsMain(k) == k.type = MainKeyType

\* BijectiveDict.__getitem__: the partner, or KeyError
GetItem(d, item) ==
    IF DictContains(d, item)
    THEN [raised |-> FALSE, result |-> d[item]]
    ELSE [raised |-> TRUE, result |-> None]

\* A plausible slip: only the forward direction is stored.
SetItemOneWay(d, key, value) ==
    LET d1 == IF DictContains(d, key) THEN DictDelItem(d, key) ELSE d
        d2 == IF DictContains(d1, value) THEN DictDelItem(d1, value) ELSE d1
    IN  DictSetItem(d2, key, value)

\* BijectiveDict.__setitem__: the dict after the call (it never raises)
SetItem(d, key, value) ==
    LET d1 == IF DictContains(d, key) THEN DictDelItem(d, key) ELSE d
        d2 == IF DictContains(d1, value) THEN DictDelItem(d1, value) ELSE d1
        d3 == DictSetItem(d2, key, value)
    IN  DictSetItem(d3, value, key)

\* A plausible slip: a missing element is ignored (dict.pop(item, None)).
DelItemLenient(d, item) ==
    IF ~DictContains(d, item)
    THEN [dict |-> d, raised |-> FALSE]
    ELSE LET d1 == IF DictContains(d, d[item]) THEN DictDelItem(d, d[item]) ELSE d
         IN  [dict |-> IF DictContains(d1, item) THEN DictDelItem(d1, item) ELSE d1,
              raised |-> FALSE]

\* BijectiveDict.__delitem__: the dict after the call and whether KeyError
\* was raised.  self[item] raises for a missing item; the first
\* dict.__delitem__ raises when the partner is not a key; the second one
\* raises when the first already removed item (item is its own partner).
DelItem(d, item) ==
    IF ~DictContains(d, item)
    THEN [dict |-> d, raised |-> TRUE]
    ELSE IF ~DictContains(d, d[item])
    THEN [dict |-> d, raised |-> TRUE]
    ELSE LET d1 == DictDelItem(d, d[item])
         IN  IF ~DictContains(d1, item)
             THEN [dict |-> d1, raised |-> TRUE]
             ELSE [dict |-> DictDelItem(d1, item), raised |-> FALSE]

\* BijectiveDict.__len__
DictLen(d) == Cardinality(DOMAIN d) \div 2

\* BijectiveDict.keys(main_only=True); the keys of a dict are distinct, so
\* the list is given as the set of its members.
Keys(d) == {k \in DOMAIN d : IsMain(k)}

\* BijectiveDict.values(secondary_only=True)
Values(d) == {k \in DOMAIN d : ~IsMain(k)}

\* self.data, the dict of UserDict: UserDict.__init__ makes it empty, and
\* no method of BijectiveDict writes to it (__setitem__ and __delitem__ are
\* overridden and use _internal_dict alone).
Data == EmptyDict

\* item in map: UserDict.__contains__ looks into self.data
Contains(item) == DictContains(Data, item)

\* iter(map): UserDict.__iter__ walks self.data
Iterate == DOMAIN Data

NoCall == [op |-> "none", key |-> None, value |-> None, stored |-> FALSE,
           raised |-> FALSE, result |-> None]

\* BijectiveDict.__init__
InitBD ==
    /\ internal = EmptyDict
    /\ last = NoCall

\* map[key] = value
DoSetItem(key, value) ==
    /\ internal' = SetItem(internal, key, value)
    /\ last' = [op |-> "set", key |-> key, value |-> value,
                stored |-> DictContains(internal, key),
                raised |-> FALSE, result |-> None]
    /\ UNCHANGED <<roVars, sigVars, stubVars, modVars, sbVars>>

\* del map[item]
DoDelItem(item) ==
    LET r == DelItem(internal, item)
    IN  /\ internal' = r.dict
        /\ last' = [op |-> "delete", key |-> item, value |-> None,
                    stored |-> DictContains(internal, item),
                    raised |-> r.raised, result |-> None]
        /\ UNCHANGED <<roVars, sigVars, stubVars, modVars, sbVars>>

\* map[item]
DoGetItem(item) ==
    LET r == GetItem(internal, item)
    IN  /\ internal' = internal
        /\ last' = [op |-> "get", key |-> item, value |-> None,
                    stored |-> DictContains(internal, item),
                    raised |-> r.raised, result |-> r.result]
        /\ UNCHANGED <<roVars, sigVars, stubVars, modVars, sbVars>>

(***************************************************************************)
(* ReadOnlyDescriptor (src/utils/_general.py:76-99), as class Colour uses  *)
(* it for its channels (src/utils/colours.py:127-152)                      *)
(***************************************************************************)
\* The managed attributes of Colour that hold a channel.
Attrs == {"r", "g"}

\* The values of a channel.
Channel == 0 .. (MaxChannel - 1)

\* instance.__class__.__name__
InstClassName == "Colour"

\* ReadOnlyDescriptor.__set_name__: the name of the storage attribute
StorageName(name) == "_" \o name

\* The value of an access that returns nothing.
NoValue == 0 - 1

\* ReadOnlyDescriptor.__get__ on an instance: getattr(instance, storage),
\* which raises AttributeError when the instance has no such attribute
DescGet(inst, storage) ==
    IF storage \in DOMAIN inst
    THEN [raised |-> FALSE, result |-> inst[storage]]
    ELSE [raised |-> TRUE, result |-> NoValue]

\* A plausible slip: the value is stored like that of a plain attribute.
DescSetStores(inst, storage, value, clsName) ==
    [inst |-> [a \in (DOMAIN inst) \cup {storage} |->
                  IF a = storage THEN value ELSE inst[a]],
     raised |-> FALSE,
     msg |-> ""]

\* ReadOnlyDescriptor.__set__: always raises AttributeError
DescSet(inst, storage, value, clsName) ==
    [inst |-> inst,
     raised |-> TRUE,
     msg |-> "attribute '" \o Tail(storage) \o "' of '" \o clsName
             \o "' object is read-only"]

NoAccess == [op |-> "none", attr |-> "", value |-> NoValue, raised |-> FALSE,
             result |-> NoValue, msg |-> "", before |-> << >>]

\* Colour.__init__(name, r, g, b): the shadow attributes are set directly
InitRO(r, g) ==
    /\ roInst = (StorageName("r") :> r @@ StorageName("g") :> g)
    /\ roLast = NoAccess

\* instance._<attr> = value: an assignment to the shadow attribute itself,
\* as in Colour.__init__
StoreShadow(attr, value) ==
    /\ roInst' = [roInst EXCEPT ![StorageName(attr)] = value]
    /\ roLast' = [NoAccess EXCEPT !.op = "store", !.attr = attr,
                                  !.value = value, !.before = roInst]
    /\ UNCHANGED <<bdVars, sigVars, stubVars, modVars, sbVars>>

\* instance.<attr>
ReadAttr(attr) ==
    LET r == DescGet(roInst, StorageName(attr))
    IN  /\ roInst' = roInst
        /\ roLast' = [NoAccess EXCEPT !.op = "read", !.attr = attr,
                                      !.raised = r.raised, !.result = r.result,
                                      !.before = roInst]
        /\ UNCHANGED <<bdVars, sigVars, stubVars, modVars, sbVars>>

\* instance.<attr> = value
WriteAttr(attr, value) ==
    LET r == DescSet(roInst, StorageName(attr), value, InstClassName)
    IN  /\ roInst' = r.inst
        /\ roLast' = [NoAccess EXCEPT !.op = "write", !.attr = attr,
                                      !.value = value, !.raised = r.raised,
                                      !.msg = r.msg, !.before = roInst]
        /\ UNCHANGED <<bdVars, sigVars, stubVars, modVars, sbVars>>

StoreAny == \E attr \in Attrs, value \in Channel : StoreShadow(attr, value)
ReadAny == \E attr \in Attrs : ReadAttr(attr)
WriteAny == \E attr \in Attrs, value \in Channel : WriteAttr(attr, value)

(***************************************************************************)
(* _stub_repr_function_like (src/utils/_general.py:158-218)                *)
(***************************************************************************)
\* An annotation: absent, a class (rendered by its __name__), a text (the
\* source has deferred annotations) or None.
NoAnn == [kind |-> "absent", name |-> ""]
ParamAnns == {NoAnn, [kind |-> "type", name |-> "int"],
              [kind |-> "text", name |-> "str"]}
ReturnAnns == {NoAnn, [kind |-> "type", name |-> "float"],
               [kind |-> "text", name |-> "Widget"],
               [kind |-> "none", name |-> ""]}

\* A default value: absent, the int 1 or the str 'x'.
NoDefault == [kind |-> "absent", int |-> 0, str |-> ""]
DefaultValues == {[kind |-> "int", int |-> 1, str |-> ""],
                  [kind |-> "str", int |-> 0, str |-> "x"]}

\* The name of the i-th declared parameter.
ParamName(i) == "p" \o ToString(i)

\* The declared parameters of a function (its receiver left out): in
\* Python those with a default follow those without.
ParamLists ==
    UNION {
        {ps \in [1 .. n -> [ann : ParamAnns,
                            default : DefaultValues \cup {NoDefault}]] :
            \A i \in 1 .. n : \A j \in 1 .. n :
                (i < j /\ ps[i].default # NoDefault) => ps[j].default # NoDefault}
        : n \in 0 .. MaxParams}

\* What f is: a plain function, a bound class method (MethodType) or a
\* cached_property.
FnKinds == {"function", "method", "cached_property"}

\* What obj.__init__ is when no class of the hierarchy defines __init__:
\* object.__init__, a slot wrapper, which has no __defaults__ and no
\* __annotations__.
SlotWrapper == [kind |-> "wrapper_descriptor", name |-> "__init__",
                params |-> << >>, ret |-> [kind |-> "absent", name |-> ""],
                recv |-> [kind |-> "absent", name |-> ""]]

\* The annotation of the first parameter, the receiver, in the source: left
\* out as a rule, or a deferred text as in def f(self: 'Shape').
ReceiverAnns == {NoAnn, [kind |-> "text", name |-> "Shape"]}

\* The name of the first parameter in the source: cls in a class method,
\* self elsewhere.
ReceiverName(f) == IF f.kind = "method" THEN "cls" ELSE "self"

Functions == [kind : FnKinds, name : {"f"}, params : ParamLists, ret : ReturnAnns,
              recv : ReceiverAnns]

RECURSIVE Reverse(_)
\* seq[::-1]
Reverse(seq) ==
    IF seq = << >> THEN << >> ELSE Reverse(Tail(seq)) \o <<Head(seq)>>

RECURSIVE Join(_, _)
\* sep.join(seq)
Join(sep, seq) ==
    IF seq = << >> THEN ""
    ELSE IF Len(seq) = 1 THEN seq[1]
    ELSE seq[1] \o sep \o Join(sep, Tail(seq))

\* list(f.__annotations__.items()) without 'return': the annotated
\* parameters, in declaration order, as (name, annotation); the receiver is
\* among them when the source annotates it
AnnotationItems(f) ==
    LET idx == {i \in 1 .. Len(f.params) : f.params[i].ann # NoAnn}
        RECURSIVE Collect(_)
        Collect(i) ==
            IF i > Len(f.params) THEN << >>
            ELSE (IF i \in idx
                  THEN <<[name |-> ParamName(i), ann |-> f.params[i].ann]>>
                  ELSE << >>) \o Collect(i + 1)
    IN  (IF f.recv # NoAnn
         THEN <<[name |-> ReceiverName(f), ann |-> f.recv]>>
         ELSE << >>) \o Collect(1)

\* f.__defaults__ as a list: the default values, in declaration order
DefaultsList(f) ==
    LET RECURSIVE Collect(_)
        Collect(i) ==
            IF i > Len(f.params) THEN << >>
            ELSE (IF f.params[i].default # NoDefault
                  THEN <<f.params[i].default>>
                  ELSE << >>) \o Collect(i + 1)
    IN  Collect(1)

\* The name of a class, a text as it is, None by its str()
TypeText(ann) == IF ann.kind = "none" THEN "None" ELSE ann.name

\* f" = '{dv}'" for a str and f" = {dv}" for anything else
DefaultText(dv) ==
    IF dv.kind = "str" THEN " = '" \o dv.str \o "'"
    ELSE " = " \o ToString(dv.int)

RECURSIVE AnnsLoop(_, _)
\* The loop over the reversed annotations: each takes the last default
\* that is left
AnnsLoop(items, defaults) ==
    IF items = << >> THEN << >>
    ELSE LET item == Head(items)
             default_value == IF defaults # << >>
                              THEN DefaultText(defaults[Len(defaults)])
                              ELSE ""
             rest == IF defaults # << >>
                     THEN SubSeq(defaults, 1, Len(defaults) - 1)
                     ELSE defaults
         IN  <<item.name \o ": " \o TypeText(item.ann) \o default_value>>
             \o AnnsLoop(Tail(items), rest)

\* The list anns when the text is put together: the parameters in reverse
\* order, then the receiver
Anns(f, class_bound) ==
    AnnsLoop(Reverse(AnnotationItems(f)), DefaultsList(f))
    \o (IF f.kind = "method" THEN <<"cls">>
        ELSE IF class_bound THEN <<"self">>
        ELSE << >>)

Decorator(f) ==
    IF f.kind = "cached_property" THEN "\t@cached_property\n"
    ELSE IF f.kind = "method" THEN "\t@classmethod\n"
    ELSE ""

\* A plausible slip: the return annotation is looked up with
\* f.__annotations__.get('return'), so that a missing one is rendered as None.
ReturnAnnotationGet(f) ==
    IF f.ret = NoAnn THEN " -> None" ELSE " -> " \o TypeText(f.ret)

\* return_annotation
ReturnAnnotation(f) ==
    IF f.ret = NoAnn THEN "" ELSE " -> " \o TypeText(f.ret)

\* _stub_repr_function_like(f, class_bound): the text returned, with the
\* list anns it was made of; AttributeError is raised at f.__defaults__ for
\* an object that has none
StubReprFunctionLike(f, class_bound) ==
    IF f.kind = "wrapper_descriptor"
    THEN [raised |-> TRUE, anns |-> << >>, text |-> ""]
    ELSE [raised |-> FALSE,
          anns |-> Anns(f, class_bound),
          text |-> Decorator(f) \o (IF class_bound THEN "\t" ELSE "")
                   \o "def " \o f.name \o "("
                   \o Join(", ", Reverse(Anns(f, class_bound)))
                   \o ")" \o ReturnAnnotation(f) \o ": ...\n"]

NoOutput == [made |-> FALSE, raised |-> FALSE, anns |-> << >>, text |-> ""]

\* The arguments of a call of _stub_repr_function_like, before it is made
InitSig(f, class_bound) ==
    /\ sigFn = f
    /\ sigBound = class_bound
    /\ sigOut = NoOutput

\* The call _stub_repr_function_like(f, class_bound)
Synthesize ==
    /\ ~sigOut.made
    /\ LET r == StubReprFunctionLike(sigFn, sigBound)
       IN  sigOut' = [made |-> TRUE, raised |-> r.raised,
                      anns |-> r.anns, text |-> r.text]
    /\ UNCHANGED <<sigFn, sigBound, bdVars, roVars, stubVars, modVars, sbVars>>

(***************************************************************************)
(* stub_repr for a class (src/utils/_general.py:221-287)                   *)
(***************************************************************************)
\* Stands for a function where a member has none.
NoFn == [kind |-> "none", name |-> "", params |-> << >>, ret |-> NoAnn,
         recv |-> NoAnn]

IntParam(default) == [ann |-> [kind |-> "type", name |-> "int"], default |-> default]
IntOne == [kind |-> "int", int |-> 1, str |-> ""]

Fn(kind, name, params, ret) ==
    [kind |-> kind, name |-> name, params |-> params, ret |-> ret,
     recv |-> NoAnn]

\* A member that is not a property: its name in dir(obj), what it was
\* declared as, its function and, for a Signal, the text of str(cls_attr).
Member(name, kind, fn, sig) ==
    [name |-> name, kind |-> kind, fn |-> fn, sig |-> sig,
     fget |-> NoFn, fset |-> NoFn, fdel |-> NoFn]

\* A property member with its three functions.
Property(name, fget, fset, fdel) ==
    [name |-> name, kind |-> "property", fn |-> NoFn, sig |-> "",
     fget |-> fget, fset |-> fset, fdel |-> fdel]

\* The members a class may have, in the order of dir(obj), which sorts the
\* names: a cached_property, a plain class attribute, a static method, a
\* ReadOnlyDescriptor, a class method, two Signals, a plain method, a
\* property written with decorators and one made of functions with names of
\* their own.
MemberCatalogue ==
    << Member("area", "cached_property",
              Fn("cached_property", "area", << >>, [kind |-> "type", name |-> "float"]), ""),
       Member("count", "other", NoFn, ""),
       Member("helper", "staticmethod",
              Fn("function", "helper", <<IntParam(IntOne)>>,
                 [kind |-> "type", name |-> "float"]), ""),
       Member("id", "readonly", NoFn, ""),
       Member("make", "method",
              Fn("method", "make", << >>, [kind |-> "text", name |-> "Widget"]), ""),
       Member("moved", "signal", NoFn, "moved(int)"),
       Member("removed", "signal", NoFn, "removed(int)"),
       Member("scale", "function",
              Fn("function", "scale", <<IntParam(IntOne)>>,
                 [kind |-> "none", name |-> ""]), ""),
       Property("value",
                Fn("function", "value", << >>, [kind |-> "type", name |-> "int"]),
                Fn("function", "value", <<IntParam(NoDefault)>>, NoAnn),
                Fn("function", "value", << >>, NoAnn)),
       Property("width",
                Fn("function", "get_width", << >>, [kind |-> "type", name |-> "int"]),
                Fn("function", "set_width", <<IntParam(NoDefault)>>, NoAnn),
                NoFn) >>

RECURSIVE Pick(_, _, _)
\* The members of seq whose index is in idx, from index i on, in order.
Pick(seq, idx, i) ==
    IF i > Len(seq) THEN << >>
    ELSE (IF i \in idx THEN <<seq[i]>> ELSE << >>) \o Pick(seq, idx, i + 1)

\* dir(obj) without the names that start with '__', for every class with up
\* to MaxMembers members of the catalogue.
MemberLists ==
    {Pick(MemberCatalogue, idx, 1) :
        idx \in {s \in SUBSET (1 .. Len(MemberCatalogue)) : Cardinality(s) <= MaxMembers}}

\* obj.__init__: a function of the class, or the slot wrapper of object.
InitFunctions ==
    {SlotWrapper, Fn("function", "__init__", << >>, NoAnn)}

\* obj.__name__, obj.__bases__, isinstance(obj, Singleton), is_dataclass(obj)
ClassHeads ==
    {[name |-> "Shape", bases |-> b, singleton |-> s, dataclass |-> d] :
        b \in {<<"object">>, <<"Base1", "Base2">>},
        s \in BOOLEAN, d \in {FALSE}}
    \cup {[name |-> "Shape", bases |-> <<"object">>, singleton |-> FALSE,
           dataclass |-> TRUE]}

Classes ==
    {[head |-> h, init |-> i, members |-> m] :
        h \in ClassHeads, i \in InitFunctions, m \in MemberLists}

\* The argument signals: None or a list of signatures.
SignalLists ==
    {[given |-> FALSE, list |-> << >>],
     [given |-> TRUE, list |-> <<"moved(int)">>],
     [given |-> TRUE, list |-> <<"removed(int)", "moved(int)">>]}

\* The argument extra_cvs: None, an empty text, or lines joined by '\n' as
\* _init_module builds them.
ExtraCvs ==
    {[given |-> FALSE, text |-> ""],
     [given |-> TRUE, text |-> ""],
     [given |-> TRUE, text |-> "\tred: Colour = None"]}

\* w in s, for two texts
StrContains(s, w) ==
    \E i \in 1 .. (Len(s) - Len(w) + 1) : SubSeq(s, i, i + Len(w) - 1) = w

\* sig.split('(')[0]
SigName(sig) ==
    LET at == {i \in 1 .. Len(sig) : SubSeq(sig, i, i) = "("}
    IN  IF at = {} THEN sig
        ELSE SubSeq(sig, 1, (CHOOSE i \in at : \A j \in at : i <= j) - 1)

\* The type of getattr(obj, dir_item): a static method comes out as its
\* plain function.
AttrType(m) == IF m.kind = "staticmethod" THEN "function" ELSE m.kind

IsFunctionLike(m) == AttrType(m) \in {"cached_property", "function", "method"}

RECURSIVE SignalLines(_, _)
\* The lines that one Signal attribute adds to signal_reprs: one for every
\* entry of signals whose name occurs in str(cls_attr)
SignalLines(m, signals) ==
    IF signals = << >> THEN << >>
    ELSE (IF StrContains(m.sig, SigName(Head(signals)))
          THEN <<"\t" \o SigName(Head(signals)) \o " : ClassVar[Signal] = ...  # "
                 \o Head(signals) \o "\n">>
          ELSE << >>)
         \o SignalLines(m, Tail(signals))

\* The texts that one property adds to properties: fget, fset, fdel, each
\* when it is not None, the latter two decorated with func.__name__
PropertyLines(m) ==
    (IF m.fget = NoFn THEN << >>
     ELSE <<"\t@property\n" \o StubReprFunctionLike(m.fget, TRUE).text>>)
    \o (IF m.fset = NoFn THEN << >>
        ELSE <<"\t@" \o m.fset.name \o ".setter\n" \o StubReprFunctionLike(m.fset, TRUE).text>>)
    \o (IF m.fdel = NoFn THEN << >>
        ELSE <<"\t@" \o m.fdel.name \o ".deleter\n" \o StubReprFunctionLike(m.fdel, TRUE).text>>)

RECURSIVE FunctionLikesNewestFirst(_)
\* A plausible slip: every text is put in front of function_likes.
FunctionLikesNewestFirst(members) ==
    IF members = << >> THEN << >>
    ELSE FunctionLikesNewestFirst(Tail(members))
         \o (IF IsFunctionLike(Head(members))
             THEN <<StubReprFunctionLike(Head(members).fn, TRUE).text>>
             ELSE << >>)

RECURSIVE FunctionLikes(_)
\* function_likes after the loop over dir(obj)
FunctionLikes(members) ==
    IF members = << >> THEN << >>
    ELSE (IF IsFunctionLike(Head(members))
          THEN <<StubReprFunctionLike(Head(members).fn, TRUE).text>>
          ELSE << >>)
         \o FunctionLikes(Tail(members))

RECURSIVE ClassVars(_)
\* class_vars after the loop
ClassVars(members) ==
    IF members = << >> THEN << >>
    ELSE (IF ~IsFunctionLike(Head(members)) /\ AttrType(Head(members)) = "readonly"
          THEN <<"\t" \o Head(members).name
                 \o ": ReadOnlyDescriptor = ReadOnlyDescriptor()\n">>
          ELSE << >>)
         \o ClassVars(Tail(members))

RECURSIVE SignalReprs(_, _)
\* signal_reprs after the loop
SignalReprs(members, signals) ==
    IF members = << >> THEN << >>
    ELSE (IF AttrType(Head(members)) = "signal" /\ signals.given
          THEN SignalLines(Head(members), signals.list)
          ELSE << >>)
         \o SignalReprs(Tail(members), signals)

RECURSIVE Properties(_)
\* properties after the loop
Properties(members) ==
    IF members = << >> THEN << >>
    ELSE (IF AttrType(Head(members)) = "property"
          THEN PropertyLines(Head(members))
          ELSE << >>)
         \o Properties(Tail(members))

\* A plausible slip: the branch for a Singleton class without a base of its
\* own is left out.
BasesTextNoStandalone(head) ==
    IF head.bases[1] # "object"
    THEN "(" \o Join(", ", head.bases)
         \o (IF head.singleton THEN ", metaclass=Singleton" ELSE "") \o ")"
    ELSE ""

\* bases: the text between the name of the class and the colon
BasesText(head) ==
    IF head.bases[1] # "object"
    THEN "(" \o Join(", ", head.bases)
         \o (IF head.singleton THEN ", metaclass=Singleton" ELSE "") \o ")"
    ELSE IF head.singleton THEN "(metaclass=Singleton)"
    ELSE ""

\* A plausible slip: the methods are put before the constructor.
ClassTextMethodsFirst(head, signal_reprs, extra, class_vars, init, function_likes, properties) ==
    (IF head.dataclass THEN "@dataclass\n" ELSE "")
    \o "class " \o head.name \o BasesText(head) \o ":\n"
    \o (IF signal_reprs # << >> THEN Join("", signal_reprs) \o "\n" ELSE "")
    \o (IF extra.given THEN extra.text \o "\n" ELSE "")
    \o (IF class_vars # << >> THEN Join("", class_vars) \o "\n" ELSE "")
    \o Join("", function_likes)
    \o init
    \o Join("", properties)

\* A plausible slip: the read-only fields are not followed by a blank line.
ClassTextNoBlankLine(head, signal_reprs, extra, class_vars, init, function_likes, properties) ==
    (IF head.dataclass THEN "@dataclass\n" ELSE "")
    \o "class " \o head.name \o BasesText(head) \o ":\n"
    \o (IF signal_reprs # << >> THEN Join("", signal_reprs) \o "\n" ELSE "")
    \o (IF extra.given THEN extra.text \o "\n" ELSE "")
    \o Join("", class_vars)
    \o init
    \o Join("", function_likes)
    \o Join("", properties)

\* The text of a class from its parts, as the f-string puts it together.
ClassText(head, signal_reprs, extra, class_vars, init, function_likes, properties) ==
    (IF head.dataclass THEN "@dataclass\n" ELSE "")
    \o "class " \o head.name \o BasesText(head) \o ":\n"
    \o (IF signal_reprs # << >> THEN Join("", signal_reprs) \o "\n" ELSE "")
    \o (IF extra.given THEN extra.text \o "\n" ELSE "")
    \o (IF class_vars # << >> THEN Join("", class_vars) \o "\n" ELSE "")
    \o init
    \o Join("", function_likes)
    \o Join("", properties)

\* stub_repr(obj, signals, extra_cvs) for a class obj: the text returned and
\* the four lists it was made of; the call raises when the text of
\* obj.__init__ cannot be made
StubRepr(cls, signals, extra) ==
    LET function_likes == FunctionLikes(cls.members)
        class_vars == ClassVars(cls.members)
        signal_reprs == SignalReprs(cls.members, signals)
        properties == Properties(cls.members)
        init == StubReprFunctionLike(cls.init, TRUE)
    IN  [raised |-> init.raised,
         signal_reprs |-> signal_reprs,
         class_vars |-> class_vars,
         function_likes |-> function_likes,
         properties |-> properties,
         init |-> init.text,
         text |-> IF init.raised THEN ""
                  ELSE ClassText(cls.head, signal_reprs, extra, class_vars,
                                 init.text, function_likes, properties)]

\* stub_repr(obj) for an obj that is no class: the text of a function, and
\* the empty repr_ for anything else
StubReprObject(f) ==
    LET r == StubReprFunctionLike(f, FALSE)
    IN  [raised |-> IF f.kind = "function" THEN r.raised ELSE FALSE,
         signal_reprs |-> << >>,
         class_vars |-> << >>,
         function_likes |-> << >>,
         properties |-> << >>,
         init |-> "",
         text |-> IF f.kind = "function" THEN r.text ELSE ""]

NoStub == [made |-> FALSE, raised |-> FALSE, signal_reprs |-> << >>,
           class_vars |-> << >>, function_likes |-> << >>, properties |-> << >>,
           init |-> "", text |-> ""]

\* The arguments of a call of stub_repr, before it is made
InitStub(cls, signals, extra) ==
    /\ stubObj = "class"
    /\ stubCls = cls
    /\ stubSignals = signals
    /\ stubExtra = extra
    /\ stubOut = NoStub

\* The call stub_repr(obj, signals, extra_cvs)
GenerateStub ==
    /\ ~stubOut.made
    /\ LET r == IF stubObj = "class"
                THEN StubRepr(stubCls, stubSignals, stubExtra)
                ELSE StubReprObject(sigFn)
       IN  stubOut' = [made |-> TRUE, raised |-> r.raised,
                       signal_reprs |-> r.signal_reprs,
                       class_vars |-> r.class_vars,
                       function_likes |-> r.function_likes,
                       properties |-> r.properties,
                       init |-> r.init, text |-> r.text]
    /\ UNCHANGED <<stubObj, stubCls, stubSignals, stubExtra, bdVars, roVars, sigVars,
                   modVars, sbVars>>

(***************************************************************************)
(* Singleton (src/utils/_general.py:131-141) and the _init_module of a     *)
(* module that writes its stub file (src/utils/colours.py:1064-1118)       *)
(***************************************************************************)
\* The classes that have the metaclass Singleton.
SingletonClasses == {"_Colours", "_WidgetTheme"}

\* The arguments a constructor call may be given.
Args == 0 .. MaxArg

\* An instance: the number of its creation in the process and the argument
\* its initializer ran with; NoInstance where there is none.
NoInstance == [id |-> 0, arg |-> 0]

\* Singleton._instances of a new process: no class is in it.
NoInstances == [cls \in SingletonClasses |-> NoInstance]

\* A plausible slip: the test `cls not in cls._instances` is left out.
SingletonCallAlwaysNew(insts, n, cls, arg, ok) ==
    IF ok
    THEN [instances |-> [insts EXCEPT ![cls] = [id |-> n + 1, arg |-> arg]],
          created |-> n + 1, raised |-> FALSE, initRan |-> TRUE,
          result |-> [id |-> n + 1, arg |-> arg]]
    ELSE [instances |-> insts, created |-> n, raised |-> TRUE, initRan |-> TRUE,
          result |-> NoInstance]

\* Singleton.__call__(cls, arg) with n instances created so far; ok tells
\* whether the initializer of cls ends without an exception
SingletonCall(insts, n, cls, arg, ok) ==
    IF insts[cls] # NoInstance
    THEN [instances |-> insts, created |-> n, raised |-> FALSE, initRan |-> FALSE,
          result |-> insts[cls]]
    ELSE IF ok
    THEN [instances |-> [insts EXCEPT ![cls] = [id |-> n + 1, arg |-> arg]],
          created |-> n + 1, raised |-> FALSE, initRan |-> TRUE,
          result |-> [id |-> n + 1, arg |-> arg]]
    ELSE [instances |-> insts, created |-> n, raised |-> TRUE, initRan |-> TRUE,
          result |-> NoInstance]

\* The stub file: whether it exists and, when it does, the version of the
\* types that its text describes.
NoFile == [exists |-> FALSE, content |-> 0]

\* A plausible slip: the stub file is written at every initialization.
StubFileAlwaysWritten(file, version, ok) ==
    IF ok THEN [exists |-> TRUE, content |-> version] ELSE file

\* The stub file after the first part of _init_module; ok tells whether the
\* texts can be made without an exception
StubFileAfterInit(file, version, ok) ==
    IF ~file.exists /\ ok THEN [exists |-> TRUE, content |-> version] ELSE file

NoModCall == [op |-> "none", cls |-> "", arg |-> 0, raised |-> FALSE, initRan |-> FALSE,
              wrote |-> FALSE, result |-> NoInstance]

\* A new process in a directory without the stub file
InitMod ==
    /\ typesVersion = 0
    /\ stubFile = NoFile
    /\ initCalls = 0
    /\ instances = NoInstances
    /\ created = 0
    /\ returned = [cls \in SingletonClasses |-> {}]
    /\ modLast = NoModCall

\* The call cls(arg) of a Singleton class
Construct(cls, arg, ok) ==
    /\ created < MaxObjects
    /\ LET r == SingletonCall(instances, created, cls, arg, ok)
       IN  /\ instances' = r.instances
           /\ created' = r.created
           /\ returned' = IF r.raised THEN returned
                          ELSE [returned EXCEPT ![cls] = @ \cup {r.result}]
           /\ modLast' = [op |-> "construct", cls |-> cls, arg |-> arg,
                          raised |-> r.raised,
                          initRan |-> r.initRan, wrote |-> FALSE,
                          result |-> r.result]
    /\ UNCHANGED <<typesVersion, stubFile, initCalls, bdVars, roVars, sigVars,
                   stubVars, sbVars>>

\* _init_module(): the stub file is written when it does not exist, then the
\* global Colours is bound to _Colours(); an exception while the texts are
\* made ends the call before anything is written
InitModule(genOk, ctorOk) ==
    /\ initCalls < MaxInits
    /\ created < MaxObjects
    /\ initCalls' = initCalls + 1
    /\ stubFile' = StubFileAfterInit(stubFile, typesVersion, genOk)
    /\ IF ~stubFile.exists /\ ~genOk
       THEN /\ modLast' = [op |-> "init", cls |-> "_Colours", arg |-> 0,
                           raised |-> TRUE,
                           initRan |-> FALSE, wrote |-> FALSE,
                           result |-> NoInstance]
            /\ UNCHANGED <<instances, created, returned>>
       ELSE LET r == SingletonCall(instances, created, "_Colours", 0, ctorOk)
            IN  /\ instances' = r.instances
                /\ created' = r.created
                /\ returned' = IF r.raised THEN returned
                               ELSE [returned EXCEPT !["_Colours"] = @ \cup {r.result}]
                /\ modLast' = [op |-> "init", cls |-> "_Colours", arg |-> 0,
                               raised |-> r.raised, initRan |-> r.initRan,
                               wrote |-> stubFile' # stubFile,
                               result |-> r.result]
    /\ UNCHANGED <<typesVersion, bdVars, roVars, sigVars, stubVars, sbVars>>

\* The source of the types is changed: their texts are no longer those of
\* the version before.
ChangeTypes ==
    /\ typesVersion < MaxVersion
    /\ typesVersion' = typesVersion + 1
    /\ modLast' = [NoModCall EXCEPT !.op = "change"]
    /\ UNCHANGED <<stubFile, initCalls, instances, created, returned, bdVars,
                   roVars, sigVars, stubVars, sbVars>>

\* A caller deletes the stub file.
DeleteFile ==
    /\ stubFile.exists
    /\ stubFile' = NoFile
    /\ modLast' = [NoModCall EXCEPT !.op = "delete"]
    /\ UNCHANGED <<typesVersion, initCalls, instances, created, returned, bdVars,
                   roVars, sigVars, stubVars, sbVars>>

\* The process ends and a new one starts: Singleton._instances is empty
\* again, the files are kept.
NewProcess ==
    /\ created > 0
    /\ instances' = NoInstances
    /\ created' = 0
    /\ returned' = [cls \in SingletonClasses |-> {}]
    /\ modLast' = [NoModCall EXCEPT !.op = "restart"]
    /\ UNCHANGED <<typesVersion, stubFile, initCalls, bdVars, roVars, sigVars,
                   stubVars, sbVars>>

(***************************************************************************)
(* SignalBlocker (src/utils/_general.py:105-128) on one QObject            *)
(***************************************************************************)
\* QObject.blockSignals(block): the flag of the object afterwards
BlockSignals(blocked, block) == block

\* SignalBlocker.__enter__: the flag of the object afterwards
BlockerEnter(blocked) == BlockSignals(blocked, TRUE)

\* SignalBlocker.__exit__: the flag of the object afterwards; the method
\* returns None, so an exception that left the body is not swallowed
BlockerExit(blocked) == BlockSignals(blocked, FALSE)

NoBlockerCall == [op |-> "none", delivered |-> FALSE, exc |-> FALSE, prior |-> FALSE]

\* An object whose signals are not blocked, outside every with block
InitSB ==
    /\ sbBlocked = FALSE
    /\ sbStack = << >>
    /\ sbPending = "none"
    /\ sbDelivered = 0
    /\ sbLast = NoBlockerCall

\* with SignalBlocker(obj) as obj: the block is entered; sbStack keeps, for
\* every block that is open, the flag the object had before
EnterBlock ==
    /\ sbPending = "none"
    /\ Len(sbStack) < MaxDepth
    /\ sbStack' = Append(sbStack, sbBlocked)
    /\ sbBlocked' = BlockerEnter(sbBlocked)
    /\ sbLast' = [NoBlockerCall EXCEPT !.op = "enter", !.prior = sbBlocked]
    /\ UNCHANGED <<sbPending, sbDelivered, bdVars, roVars, sigVars, stubVars, modVars>>

\* The innermost open block is left, at the end of its body or by the
\* exception that is under way, which goes on to the enclosing code
ExitBlock ==
    /\ sbStack # << >>
    /\ sbStack' = SubSeq(sbStack, 1, Len(sbStack) - 1)
    /\ sbBlocked' = BlockerExit(sbBlocked)
    /\ sbPending' = IF sbPending = "none" THEN "none" ELSE "propagating"
    /\ sbLast' = [NoBlockerCall EXCEPT !.op = "exit", !.exc = (sbPending # "none"),
                                       !.prior = sbStack[Len(sbStack)]]
    /\ UNCHANGED <<sbDelivered, bdVars, roVars, sigVars, stubVars, modVars>>

\* The code that runs, inside a body or outside, makes the object emit a
\* signal, which is delivered when the signals are not blocked
EmitSignal ==
    /\ sbPending = "none"
    /\ sbDelivered < MaxSignals
    /\ sbDelivered' = IF sbBlocked THEN sbDelivered ELSE sbDelivered + 1
    /\ sbLast' = [NoBlockerCall EXCEPT !.op = "emit", !.delivered = ~sbBlocked]
    /\ UNCHANGED <<sbBlocked, sbStack, sbPending, bdVars, roVars, sigVars, stubVars,
                   modVars>>

\* The body of the innermost open block raises an exception.
RaiseInBody ==
    /\ sbPending = "none"
    /\ sbStack # << >>
    /\ sbPending' = "raised"
    /\ sbLast' = [NoBlockerCall EXCEPT !.op = "raise", !.exc = TRUE]
    /\ UNCHANGED <<sbBlocked, sbStack, sbDelivered, bdVars, roVars, sigVars, stubVars,
                   modVars>>

\* The code around a block that was left by an exception handles it.
CatchOutside ==
    /\ sbPending = "propagating"
    /\ sbPending' = "none"
    /\ sbLast' = [NoBlockerCall EXCEPT !.op = "catch"]
    /\ UNCHANGED <<sbBlocked, sbStack, sbDelivered, bdVars, roVars, sigVars, stubVars,
                   modVars>>

\* Outside every block the caller calls obj.blockSignals(block) itself.
DirectBlock(block) ==
    /\ sbPending = "none"
    /\ sbStack = << >>
    /\ sbBlocked' = BlockSignals(sbBlocked, block)
    /\ sbLast' = [NoBlockerCall EXCEPT !.op = "direct", !.prior = sbBlocked]
    /\ UNCHANGED <<sbStack, sbPending, sbDelivered, bdVars, roVars, sigVars, stubVars,
                   modVars>>

(***************************************************************************)
(* Specifications                                                          *)
(***************************************************************************)
SetAny == \E key \in Elem, value \in Elem : DoSetItem(key, value)
DelAny == \E item \in Elem : DoDelItem(item)
GetAny == \E item \in Elem : DoGetItem(item)

\* def f(): ...
PlainFunction == [kind |-> "function", name |-> "f", params |-> << >>, ret |-> NoAnn,
                  recv |-> NoAnn]

\* class Shape: with an __init__(self) and nothing else
PlainClass ==
    [head |-> [name |-> "Shape", bases |-> <<"object">>, singleton |-> FALSE,
               dataclass |-> FALSE],
     init |-> Fn("function", "__init__", << >>, NoAnn),
     members |-> << >>]

\* stub_repr(Shape)
InitStubUnused == InitStub(PlainClass, [given |-> FALSE, list |-> << >>],
                           [given |-> FALSE, text |-> ""])

\* An empty map; beside it a Colour and a function that are not used.
Init ==
    /\ InitBD
    /\ InitMod
    /\ InitSB
    /\ InitRO(0, 0)
    /\ InitSig(PlainFunction, FALSE)
    /\ InitStubUnused

Next ==
    \/ SetAny
    \/ DelAny
    \/ GetAny

\* Any calls of a BijectiveDict(int).
Spec == Init /\ [][Next]_vars

\* The use that _Colours makes of the map: every set call pairs an element
\* of the main key type with one that is not.
SetTyped ==
    \E m \in Ints, c \in Colours :
        \/ DoSetItem(m, c)
        \/ DoSetItem(c, m)

NextTyped ==
    \/ SetTyped
    \/ DelAny
    \/ GetAny

SpecTyped == Init /\ [][NextTyped]_vars

\* A Colour made with any channels; beside it an empty map and a function
\* that are not used.
InitColour ==
    /\ InitBD
    /\ InitMod
    /\ InitSB
    /\ \E r \in Channel, g \in Channel : InitRO(r, g)
    /\ InitSig(PlainFunction, FALSE)
    /\ InitStubUnused

NextRO ==
    \/ StoreAny
    \/ ReadAny
    \/ WriteAny

\* Any accesses to the channels of a Colour.
SpecRO == InitColour /\ [][NextRO]_vars

\* Any function-like object and flag; beside them an empty map and a Colour
\* that are not used.
InitFunction ==
    /\ InitBD
    /\ InitMod
    /\ InitSB
    /\ InitRO(0, 0)
    /\ \E f \in Functions, class_bound \in BOOLEAN : InitSig(f, class_bound)
    /\ InitStubUnused

NextSig == Synthesize

\* One call of _stub_repr_function_like.
SpecSig == InitFunction /\ [][NextSig]_vars

\* Any class, allow-list and extra lines; beside them an empty map, a Colour
\* and a function that are not used.
InitClass ==
    /\ InitBD
    /\ InitMod
    /\ InitSB
    /\ InitRO(0, 0)
    /\ InitSig(PlainFunction, FALSE)
    /\ \E cls \in Classes, signals \in SignalLists, extra \in ExtraCvs :
           InitStub(cls, signals, extra)

NextStub == GenerateStub

\* One call of stub_repr for a class.
SpecStub == InitClass /\ [][NextStub]_vars

\* Any object that is no class: a plain function, a bound method or a
\* cached_property object; beside it an empty map and a Colour that are not
\* used.
InitObject ==
    /\ InitBD
    /\ InitMod
    /\ InitSB
    /\ InitRO(0, 0)
    /\ \E f \in Functions : InitSig(f, FALSE)
    /\ stubObj = "object"
    /\ stubCls = PlainClass
    /\ stubSignals = [given |-> FALSE, list |-> << >>]
    /\ stubExtra = [given |-> FALSE, text |-> ""]
    /\ stubOut = NoStub

NextObj == GenerateStub

\* One call of stub_repr for an object that is no class.
SpecObj == InitObject /\ [][NextObj]_vars

\* A new process; beside it a map, a Colour, a function, a class and a
\* QObject that are not used.
InitProcess ==
    /\ InitBD
    /\ InitRO(0, 0)
    /\ InitSig(PlainFunction, FALSE)
    /\ InitStubUnused
    /\ InitMod
    /\ InitSB

ConstructAny ==
    \E cls \in SingletonClasses, arg \in Args, ok \in BOOLEAN : Construct(cls, arg, ok)

InitModuleAny == \E genOk \in BOOLEAN, ctorOk \in BOOLEAN : InitModule(genOk, ctorOk)

NextModule ==
    \/ ConstructAny
    \/ InitModuleAny
    \/ ChangeTypes
    \/ DeleteFile
    \/ NewProcess

\* Any initializations of the module and calls of Singleton classes, over
\* several processes.
SpecModule == InitProcess /\ [][NextModule]_vars

DirectBlockAny == \E block \in BOOLEAN : DirectBlock(block)

NextBlocker ==
    \/ EnterBlock
    \/ ExitBlock
    \/ EmitSignal
    \/ RaiseInBody
    \/ CatchOutside
    \/ DirectBlockAny

\* Any use of SignalBlocker with one QObject.
SpecBlocker == InitProcess /\ [][NextBlocker]_vars

(***************************************************************************)
(* Claims about BijectiveDict                                              *)
(***************************************************************************)
\* The entries of d outside the set gone.
Without(d, gone) == [y \in (DOMAIN d) \ gone |-> d[y]]

Found(x) == [raised |-> FALSE, result |-> x]

\* C1: in every reachable state every stored element x satisfies
\* get(get(x)) = x: its partner is stored and points back to it.
C1_GetGetIsIdentity ==
    \A x \in DOMAIN internal :
        /\ ~GetItem(internal, x).raised
        /\ GetItem(internal, GetItem(internal, x).result) = Found(x)

\* C2: set(a, b) followed by set(a, c), with a, b, c pairwise distinct,
\* leaves b absent (get(b) raises, no entry has b as key or value), while
\* get(c) returns a and get(a) returns c.
C2_OverwriteEvicts ==
    [][\A a, b, c \in Elem :
          ( /\ a # b /\ a # c /\ b # c
            /\ last.op = "set" /\ last.key = a /\ last.value = b
            /\ DoSetItem(a, c) )
          => /\ GetItem(internal', b).raised
             /\ \A x \in DOMAIN internal' : x # b /\ internal'[x] # b
             /\ GetItem(internal', c) = Found(a)
             /\ GetItem(internal', a) = Found(c)]_vars

\* C3: no element is shared by two pairs: no two distinct stored keys map
\* to the same value.
C3_NoSharedElement ==
    \A x, y \in DOMAIN internal : x # y => internal[x] # internal[y]

\* C4: the raw stored-entry count is even and len(map) is exactly half of
\* it.
C4_LenIsHalfTheEntries ==
    /\ Cardinality(DOMAIN internal) % 2 = 0
    /\ 2 * DictLen(internal) = Cardinality(DOMAIN internal)

\* C5: immediately after set(k, v), get(k) returns v and get(v) returns k.
C5_SetStoresBothDirections ==
    last.op = "set" =>
        /\ GetItem(internal, last.key) = Found(last.value)
        /\ GetItem(internal, last.value) = Found(last.key)

\* C5 witness: a set that overwrote a stored key in a map holding other
\* entries.
C5_Witness ==
    /\ last.op = "set"
    /\ last.stored
    /\ last.key # last.value
    /\ Cardinality(DOMAIN internal) > 2

\* C6: delete(x) on a stored element x removes exactly x and its partner
\* get(x): afterwards neither is stored and every other entry is stored
\* with the same partner.
C6_DeleteRemovesThePair ==
    [][\A x \in Elem :
          (DictContains(internal, x) /\ DoDelItem(x))
          => internal' = Without(internal, {x, internal[x]})]_vars

\* C7: get(x) and delete(x) on an element that is not stored raise KeyError
\* and leave the contents of the map unchanged.
C7_AbsentRaisesKeyError ==
    [][\A x \in Elem :
          ~DictContains(internal, x)
          => /\ DoGetItem(x) => (last'.raised /\ internal' = internal)
             /\ DoDelItem(x) => (last'.raised /\ internal' = internal)]_vars

\* C7 witness: a delete of an element that was not stored has raised, in a
\* map that holds entries.
C7_Witness ==
    /\ last.op = "delete"
    /\ ~last.stored
    /\ last.raised
    /\ DOMAIN internal # {}

\* C8: when every set call pairs a main-domain element with a non-main one,
\* keys() and values() are disjoint, both as long as len(map), and the
\* partner of every element of keys() is in values() and vice versa.
C8_DomainsNeverDrift ==
    /\ Keys(internal) \cap Values(internal) = {}
    /\ Cardinality(Keys(internal)) = DictLen(internal)
    /\ Cardinality(Values(internal)) = DictLen(internal)
    /\ \A k \in Keys(internal) : internal[k] \in Values(internal)
    /\ \A v \in Values(internal) : internal[v] \in Keys(internal)

(***************************************************************************)
(* Claims about ReadOnlyDescriptor                                         *)
(***************************************************************************)
\* Whether the text w occurs in the text s.
Mentions(s, w) ==
    \E i \in 1 .. (Len(s) - Len(w) + 1) : SubSeq(s, i, i + Len(w) - 1) = w

\* C9: an assignment through a ReadOnlyDescriptor attribute of an instance
\* fails with an error that names the attribute and the class and leaves
\* the stored values unchanged; reading the attribute returns the current
\* value of the shadow attribute '_<name>'.
C9_ReadOnlyAttribute ==
    /\ roLast.op = "write" =>
          /\ roLast.raised
          /\ Mentions(roLast.msg, "'" \o roLast.attr \o "'")
          /\ Mentions(roLast.msg, "'Colour'")
          /\ roInst = roLast.before
    /\ roLast.op = "read" =>
          /\ ~roLast.raised
          /\ roLast.result = roInst["_" \o roLast.attr]

\* C9 witness: a write of a value other than the stored one was attempted
\* through the descriptor, on an instance whose two channels differ.
C9_Witness ==
    /\ roLast.op = "write"
    /\ roLast.value # roInst["_" \o roLast.attr]
    /\ roInst["_r"] # roInst["_g"]

(***************************************************************************)
(* Claims about the signature synthesizer                                  *)
(***************************************************************************)
\* The text of the i-th declared parameter of f that the spec asks for:
\* its name, its type when it declares one, its default when it declares
\* one.
DeclaredText(f, i) ==
    ParamName(i)
    \o (IF f.params[i].ann = NoAnn THEN "" ELSE ": " \o TypeText(f.params[i].ann))
    \o (IF f.params[i].default = NoDefault THEN ""
        ELSE IF f.params[i].default.kind = "str"
        THEN " = '" \o f.params[i].default.str \o "'"
        ELSE " = " \o ToString(f.params[i].default.int))

\* The parameters that were emitted, in the order of the text, without the
\* receiver.
EmittedParams ==
    LET all == Reverse(sigOut.anns)
    IN  IF sigFn.kind = "method" \/ sigBound THEN Tail(all) ELSE all

\* C10: every declared parameter is emitted, in declaration order, with the
\* default that it declares: (p1, p2=1, p3='x') gives the parameter text
\* "p1, p2 = 1, p3 = 'x'".
C10_DefaultsMatchParameters ==
    sigOut.made =>
        /\ Len(EmittedParams) = Len(sigFn.params)
        /\ \A i \in 1 .. Len(sigFn.params) :
              i <= Len(EmittedParams) => EmittedParams[i] = DeclaredText(sigFn, i)

\* Whether the text s ends with the text w.
EndsWith(s, w) ==
    Len(s) >= Len(w) /\ SubSeq(s, Len(s) - Len(w) + 1, Len(s)) = w

\* How often the text w occurs in the text s.
Occurrences(s, w) ==
    Cardinality({i \in 1 .. (Len(s) - Len(w) + 1) : SubSeq(s, i, i + Len(w) - 1) = w})

\* C11: when the metadata of a callable records more default values than
\* there are parameters to attach them to, synthesis ends with an error and
\* returns no text.
C11_SurplusDefaultsAbort ==
    (sigOut.made /\ Len(DefaultsList(sigFn)) > Len(AnnotationItems(sigFn)))
    => (sigOut.raised /\ sigOut.text = "")

\* C12: a callable with no declared return type is emitted with no arrow
\* clause between the closing parenthesis and ': ...'; one that declares a
\* return type (a class, a deferred text used as it is, or None) is emitted
\* with exactly one ' -> <Type>' clause there.
C12_ReturnTypeClause ==
    sigOut.made =>
        /\ sigFn.ret = NoAnn =>
              /\ EndsWith(sigOut.text, "): ...\n")
              /\ Occurrences(sigOut.text, "->") = 0
        /\ sigFn.ret # NoAnn =>
              /\ EndsWith(sigOut.text,
                          ") -> " \o (IF sigFn.ret.kind = "none" THEN "None"
                                      ELSE sigFn.ret.name) \o ": ...\n")
              /\ Occurrences(sigOut.text, "->") = 1

\* C12 witness: a class-bound callable with parameters and a deferred return
\* type has been emitted.
C12_Witness ==
    /\ sigOut.made
    /\ sigBound
    /\ sigFn.ret.kind = "text"
    /\ Len(sigOut.anns) > 2

\* The places in s where w starts.
Positions(s, w) ==
    {i \in 1 .. (Len(s) - Len(w) + 1) : SubSeq(s, i, i + Len(w) - 1) = w}

\* The elements of a sequence of texts.
Range(seq) == {seq[i] : i \in 1 .. Len(seq)}

\* The six sections of the body of the class that was given, in the order
\* the specification lists them; each is the set of the texts of its members.
Sections ==
    << Range(stubOut.signal_reprs),
       IF stubExtra.given /\ stubExtra.text # "" THEN {stubExtra.text} ELSE {},
       Range(stubOut.class_vars),
       {stubOut.init},
       Range(stubOut.function_likes),
       Range(stubOut.properties) >>

\* C13: in the text of a class, every member of every section is there, and
\* wherever a member of an earlier section stands, it ends before any member
\* of a later section begins: event channels, extra lines, read-only fields,
\* the constructor, methods and lazy attributes, properties.
C13_SectionsInFixedOrder ==
    (stubOut.made /\ ~stubOut.raised) =>
        /\ \A i \in 1 .. 6 : \A a \in Sections[i] :
               Positions(stubOut.text, a) # {}
        /\ \A i \in 1 .. 6, j \in 1 .. 6 : i < j =>
               \A a \in Sections[i], b \in Sections[j] :
                   \A pa \in Positions(stubOut.text, a),
                      pb \in Positions(stubOut.text, b) : pa + Len(a) <= pb

\* A class with an event channel, extra lines, a read-only field, a
\* constructor and a method has had its text made.
C13_Witness ==
    /\ stubOut.made /\ ~stubOut.raised
    /\ Cardinality({i \in 1 .. 6 : Sections[i] # {}}) = 5

\* 1 for TRUE, 0 for FALSE.
Count(b) == IF b THEN 1 ELSE 0

\* The blank lines of a text: every newline that follows a newline.
BlankLines(s) == Occurrences(s, "\n\n")

IsShape ==
    /\ stubCls.head = [name |-> "Shape", bases |-> <<"Base1", "Base2">>,
                       singleton |-> FALSE, dataclass |-> FALSE]
    /\ stubCls.init.kind = "function"
    /\ Len(stubCls.members) = 3
    /\ stubCls.members[1].name = "area"
    /\ stubCls.members[2].name = "id"
    /\ stubCls.members[3].name = "make"
    /\ ~stubExtra.given

\* s has the texts of seq one after another, not overlapping, in the order
\* of seq, the first at the start of s.
RECURSIVE InOrderFrom(_, _, _)
InOrderFrom(s, seq, from) ==
    IF seq = << >> THEN TRUE
    ELSE \E p \in Positions(s, Head(seq)) :
            /\ p >= from
            /\ InOrderFrom(s, Tail(seq), p + Len(Head(seq)))

\* C15, as the specification states it: the text of Shape is the header, then
\* the id line, then the constructor, then the class method make, then the
\* lazy attribute area.
C15_ShapeMakeBeforeArea ==
    (stubOut.made /\ IsShape) =>
        /\ Positions(stubOut.text, "class Shape(Base1, Base2):\n") = {1}
        /\ InOrderFrom(stubOut.text,
                       << "class Shape(Base1, Base2):\n",
                          "\tid: ReadOnlyDescriptor = ReadOnlyDescriptor()\n",
                          "\tdef __init__(self): ...\n",
                          "\t@classmethod\n\tdef make(cls) -> Widget: ...\n",
                          "\t@cached_property\n\tdef area(self) -> float: ...\n" >>, 1)

\* C15, amended: the text of Shape is the header, the id line and a blank
\* line, the constructor, then the lazy attribute area and then the class
\* method make, since the members come in the order of their names.
C15_ShapeAreaBeforeMake ==
    (stubOut.made /\ IsShape) =>
        /\ ~stubOut.raised
        /\ stubOut.text =
               "class Shape(Base1, Base2):\n"
               \o "\tid: ReadOnlyDescriptor = ReadOnlyDescriptor()\n"
               \o "\n"
               \o "\tdef __init__(self): ...\n"
               \o "\t@cached_property\n\tdef area(self) -> float: ...\n"
               \o "\t@classmethod\n\tdef make(cls) -> Widget: ...\n"

\* The text of Shape has been made.
C15_Witness == stubOut.made /\ IsShape /\ stubOut.text # ""

\* The members of the class that was given.
GivenMembers == Range(stubCls.members)

\* C16: a class with a member of a shape that is not recognized, beside
\* recognized ones, gets a text without error that has nothing of the
\* unrecognized member and every recognized method, lazy attribute and
\* read-only field once.
C16_UnknownMemberTolerated ==
    (/\ stubOut.made
     /\ \E m \in GivenMembers : AttrType(m) = "other"
     /\ \E m \in GivenMembers : IsFunctionLike(m) \/ AttrType(m) = "readonly")
    =>
        /\ ~stubOut.raised
        /\ \A m \in GivenMembers :
              /\ AttrType(m) = "other" => Occurrences(stubOut.text, m.name) = 0
              /\ IsFunctionLike(m) =>
                    Occurrences(stubOut.text, "def " \o m.fn.name \o "(") = 1
              /\ AttrType(m) = "readonly" =>
                    Occurrences(stubOut.text, "\t" \o m.name \o ":") = 1

\* The line the specification wants for an event channel and an entry of the
\* allow-list.
ChannelLine(entry) ==
    "\t" \o SigName(entry) \o " : ClassVar[Signal] = ...  # " \o entry \o "\n"

\* The entries of the allow-list whose name part is the name of the channel m;
\* none when no allow-list is given.
EntriesNaming(m) ==
    IF stubSignals.given
    THEN {i \in 1 .. Len(stubSignals.list) : SigName(stubSignals.list[i]) = m.name}
    ELSE {}

\* C18: an event channel of the class gets a declaration exactly when its
\* name is the name part of an entry of the allow-list, and then one line
\* with the entry as its comment; the other channels, and every channel when
\* no allow-list is given, get nothing.
C18_ChannelDeclaredIffNamed ==
    (stubOut.made /\ ~stubOut.raised) =>
        LET channels == {m \in GivenMembers : AttrType(m) = "signal"}
            named == {m \in channels : EntriesNaming(m) # {}}
        IN  /\ Len(stubOut.signal_reprs) = Cardinality(named)
            /\ \A m \in named : \E i \in EntriesNaming(m) :
                   ChannelLine(stubSignals.list[i]) \in Range(stubOut.signal_reprs)

\* C19: a static method of the class is emitted like a class method, with
\* @classmethod and cls as its first parameter.
C19_StaticEmittedAsClassMethod ==
    (stubOut.made /\ ~stubOut.raised) =>
        \A m \in GivenMembers : m.kind = "staticmethod" =>
            Occurrences(stubOut.text,
                        "\t@classmethod\n\tdef " \o m.fn.name \o "(cls") = 1

\* The text the specification wants for the property m: its read, write and
\* delete functions, those that are defined, one after another, the latter
\* two annotated with the name of the property.
PropertyTextWanted(m) ==
    (IF m.fget = NoFn THEN ""
     ELSE "\t@property\n" \o StubReprFunctionLike(m.fget, TRUE).text)
    \o (IF m.fset = NoFn THEN ""
        ELSE "\t@" \o m.name \o ".setter\n" \o StubReprFunctionLike(m.fset, TRUE).text)
    \o (IF m.fdel = NoFn THEN ""
        ELSE "\t@" \o m.name \o ".deleter\n" \o StubReprFunctionLike(m.fdel, TRUE).text)

\* C20: every property of the class has its defined read, write and delete
\* functions emitted in that order and next to each other, the read under
\* @property and the others under @<P>.setter and @<P>.deleter where <P> is
\* the name of the property on the class.
C20_PropertyNamedByMember ==
    (stubOut.made /\ ~stubOut.raised) =>
        \A m \in GivenMembers : AttrType(m) = "property" =>
            Occurrences(stubOut.text, PropertyTextWanted(m)) = 1

(***************************************************************************)
(* Claims about receivers, headers and stand-alone functions               *)
(***************************************************************************)
\* C21: a callable emitted inside a class (class_bound is True) has exactly
\* one receiver, first in the parameter list, with no annotation and no
\* default value: cls for a class method, self for the others; a plain
\* function emitted on its own has none.
C21_OneLeadingReceiver ==
    (sigOut.made /\ ~sigOut.raised) =>
        /\ sigBound =>
              /\ Occurrences(sigOut.text, "self") + Occurrences(sigOut.text, "cls") = 1
              /\ Occurrences(sigOut.text, "def f(" \o ReceiverName(sigFn) \o ")")
                 + Occurrences(sigOut.text, "def f(" \o ReceiverName(sigFn) \o ", ") = 1
        /\ (~sigBound /\ sigFn.kind = "function" /\ sigFn.recv = NoAnn) =>
              Occurrences(sigOut.text, "self") + Occurrences(sigOut.text, "cls") = 0

\* Whether the text s starts with the text w.
StartsWith(s, w) == Len(s) >= Len(w) /\ SubSeq(s, 1, Len(w)) = w

\* The header line the specification describes for the class that was given.
HeaderWanted ==
    LET h == stubCls.head
        nontrivial == h.bases # <<"object">>
        list == Join(", ", h.bases)
    IN  "class " \o h.name
        \o (CASE  ~nontrivial /\ ~h.singleton -> ""
              []  nontrivial /\ ~h.singleton -> "(" \o list \o ")"
              []  nontrivial /\  h.singleton -> "(" \o list \o ", metaclass=Singleton)"
              [] ~nontrivial /\  h.singleton -> "(metaclass=Singleton)")
        \o ":\n"

\* C22: the text of a class starts with its header: 'class <Name>' alone for
\* a class with only the base object and no metaclass, with the list of its
\* bases in parentheses when it has bases of its own, with
\* ', metaclass=Singleton' inside the same parentheses when it is also a
\* Singleton class, and with '(metaclass=Singleton)' when it is a Singleton
\* class without bases of its own; a line '@dataclass' stands before the
\* header exactly when the class is a dataclass.
C22_HeaderLine ==
    (stubOut.made /\ ~stubOut.raised) =>
        /\ stubCls.head.dataclass =>
              StartsWith(stubOut.text, "@dataclass\n" \o HeaderWanted)
        /\ ~stubCls.head.dataclass =>
              /\ StartsWith(stubOut.text, HeaderWanted)
              /\ Occurrences(stubOut.text, "@dataclass") = 0
        /\ Occurrences(stubOut.text, "class " \o stubCls.head.name) = 1

\* The text of a Singleton class with only the base object and as many
\* members as the bound allows has been made.
C22_Witness ==
    /\ stubOut.made /\ ~stubOut.raised
    /\ stubCls.head.singleton
    /\ stubCls.head.bases = <<"object">>
    /\ Len(stubCls.members) = MaxMembers

\* C24: stub_repr of a plain function returns one line that is not indented,
\* 'def <name>(<params>)[ -> <type>]: ...', with no class header, no receiver
\* and no decorator line; and for any object the call raises or returns a
\* complete declaration, never an empty text.
C24_FunctionLineOrError ==
    stubOut.made =>
        /\ sigFn.kind = "function" =>
              /\ ~stubOut.raised
              /\ StartsWith(stubOut.text, "def " \o sigFn.name \o "(")
              /\ EndsWith(stubOut.text, ": ...\n")
              /\ Occurrences(stubOut.text, "\n") = 1
              /\ Occurrences(stubOut.text, "\t") = 0
              /\ Occurrences(stubOut.text, "@") = 0
              /\ Occurrences(stubOut.text, "class ") = 0
              /\ \A r \in {"self", "cls"} :
                    /\ ~StartsWith(stubOut.text, "def " \o sigFn.name \o "(" \o r \o ")")
                    /\ ~StartsWith(stubOut.text, "def " \o sigFn.name \o "(" \o r \o ",")
        /\ \/ stubOut.raised
           \/ stubOut.text # "" /\ EndsWith(stubOut.text, ": ...\n")

(***************************************************************************)
(* Claims about module initialization, Singleton and SignalBlocker         *)
(***************************************************************************)
\* C23: an initialization of the module writes the stub file only when the
\* file does not exist, and then with the text of the types as they are; a
\* file that exists keeps its content through every step, whatever has
\* become of the types, and goes away only when a caller deletes it.
C23_StubWrittenOnlyWhenAbsent ==
    [][/\ (initCalls' # initCalls /\ stubFile.exists) => stubFile' = stubFile
       /\ (initCalls' # initCalls /\ stubFile' # stubFile) =>
              /\ ~stubFile.exists
              /\ stubFile' = [exists |-> TRUE, content |-> typesVersion]
       /\ (stubFile.exists /\ stubFile'.exists) => stubFile'.content = stubFile.content
       /\ (stubFile.exists /\ ~stubFile'.exists) => modLast'.op = "delete"]_vars

\* An initialization has found the stub file of an older version of the
\* types and has left it alone.
C23_Witness ==
    /\ modLast.op = "init"
    /\ ~modLast.raised
    /\ ~modLast.wrote
    /\ stubFile.exists
    /\ stubFile.content # typesVersion

\* C25: in a process every call of a Singleton class that returns, returns
\* the one instance of the class: the initializer has run to its end once
\* for each class that has an instance, a later call runs no initializer and
\* returns the instance with the argument of the first call, whatever its
\* own argument; two Singleton classes have different instances.
C25_OneInstancePerClass ==
    /\ \A cls \in SingletonClasses :
          /\ Cardinality(returned[cls]) <= 1
          /\ returned[cls] # {} => returned[cls] = {instances[cls]}
    /\ \A c1 \in SingletonClasses, c2 \in SingletonClasses :
          (c1 # c2 /\ instances[c1] # NoInstance /\ instances[c2] # NoInstance)
          => instances[c1].id # instances[c2].id
    /\ created = Cardinality({cls \in SingletonClasses : instances[cls] # NoInstance})
    /\ (modLast.op \in {"construct", "init"} /\ ~modLast.raised) =>
          /\ modLast.result = instances[modLast.cls]
          /\ modLast.result # NoInstance
          /\ modLast.initRan => modLast.result.arg = modLast.arg

\* A Singleton class has been called with another argument than its instance
\* was made with, and the other Singleton class has an instance too.
C25_Witness ==
    /\ modLast.op = "construct"
    /\ ~modLast.raised
    /\ ~modLast.initRan
    /\ modLast.arg # modLast.result.arg
    /\ \A cls \in SingletonClasses : instances[cls] # NoInstance

\* C26: while a with SignalBlocker(obj) block is open the signals of the
\* object are blocked, so that no signal emitted in its body is delivered;
\* when a block that was entered with the signals not blocked is left, at
\* its end or by an exception, the signals are not blocked any more, and an
\* exception that left the body goes on to the enclosing code.
C26_BlockedForWholeBody ==
    /\ sbStack # << >> => sbBlocked
    /\ (sbLast.op = "emit" /\ sbStack # << >>) => ~sbLast.delivered
    /\ sbLast.op = "exit" =>
          /\ ~sbLast.prior => ~sbBlocked
          /\ sbLast.exc => sbPending = "propagating"

\* C27: when a block is left, the signals of the object are blocked exactly
\* when they were blocked before the block was entered; signals that were
\* blocked by an enclosing block stay blocked until the outermost block is
\* left.
C27_PriorStateRestored ==
    /\ sbLast.op = "exit" => sbBlocked = sbLast.prior
    /\ (sbLast.op = "exit" /\ sbStack # << >>) => sbBlocked

(***************************************************************************)
(* Further claims about BijectiveDict                                      *)
(***************************************************************************)
\* C28: a delete either returns normally and has removed one whole pair, the
\* element and its partner, which pointed to each other, or raises and
\* leaves the stored entries as they were.
C28_DeleteIsAtomic ==
    [][\A x \in Elem :
          DoDelItem(x) =>
              IF last'.raised
              THEN internal' = internal
              ELSE /\ DictContains(internal, x)
                   /\ DictContains(internal, internal[x])
                   /\ internal[internal[x]] = x
                   /\ internal' = Without(internal, {x, internal[x]})]_vars

\* C29: set(k, v) leaves every stored entry a -> b with a and b both
\* different from k and from v as it was, and when neither k nor v was
\* stored, len(map) is one more afterwards.
C29_SetTouchesOnlyItsPairs ==
    [][\A k \in Elem, v \in Elem :
          DoSetItem(k, v) =>
              /\ \A a \in DOMAIN internal :
                    (a \notin {k, v} /\ internal[a] \notin {k, v})
                    => (DictContains(internal', a) /\ internal'[a] = internal[a])
              /\ (~DictContains(internal, k) /\ ~DictContains(internal, v))
                    => DictLen(internal') = DictLen(internal) + 1]_vars

\* C30: in every reachable state x in map is true exactly when map[x]
\* returns, and iterating the map gives exactly the stored elements.
C30_MembershipAgreesWithLookup ==
    /\ \A x \in Elem : Contains(x) <=> ~GetItem(internal, x).raised
    /\ Iterate = DOMAIN internal

====
